---- MODULE Spec2Model ----
(***************************************************************************)
(* A model of the GitHub pull-request fetch engine of mydor/SailPoint:     *)
(* Api (api.py: construction, the guarded get, the unimplemented verbs),   *)
(* the rate_limit decorator and rate_limit_sleep, and                      *)
(* GitHub.get_pull_requests / GitHub.__date_filter (github.py),            *)
(* PullRequest (pull_request.py) and build_report (report.py).             *)
(*                                                                         *)
(* Strings the code compares or inspects are modelled as sequences:        *)
(*  - a timestamp is a sequence of one-character strings; the zero-padded  *)
(*    fixed-width part "YYYY-MM-DDTHH:MM:SS" is abstracted to ONE digit    *)
(*    (the second), and what follows it (nothing, ".ffffff" abstracted to  *)
(*    "." and one digit, or "Z") is kept, because Python compares the      *)
(*    strings character by character;                                      *)
(*  - an error message is a sequence of words.                             *)
(***************************************************************************)
EXTENDS Integers, Sequences, FiniteSets, TLC

\* ------------------------------------------------------------------ bounds
MaxRecs    == 3   \* records the server holds, at most
MaxTime    == 1   \* seconds range over 0..MaxTime (one digit: MaxTime <= 8)
MaxPerPage == 2   \* per_page ranges over 1..MaxPerPage
MaxRetries == 2   \* rate-limit responses the server gives to one logical request, at most
MaxEpoch   == 1   \* epochs (X-RateLimit-Reset, time.time()) range over 0..MaxEpoch
MaxDay     == 1   \* days of a report's timestamps range over 0..MaxDay (one digit)
MaxTitle   == 45  \* titles are 0..MaxTitle characters long

\* Python's None: a string where the value is a string (a token, an exception
\* name), a record where it is a record (a datetime, a response, the Api
\* object); an optional integer or list is the empty or the one-element sequence
None == "None"

NoDate == [none |-> TRUE]

NoResponse == [none |-> TRUE]

NoApi == [none |-> TRUE]

Absent == <<>>

Some(v) == <<v>>

\* ------------------------------------------------------------ Python strings
DigitChars == <<"0", "1", "2", "3", "4", "5", "6", "7", "8", "9">>

Digit(n) == DigitChars[n + 1]

DigitValue(c) == CHOOSE n \in 0..9 : DigitChars[n + 1] = c

\* ord(c) of the characters a timestamp is made of
Ord(c) ==
    IF c = "Z" THEN 90
    ELSE IF c = "." THEN 46
    ELSE 48 + DigitValue(c)

\* Python's a < b on str: lexicographic by code point, a proper prefix is smaller
StrLess(a, b) ==
    \E i \in 1..(Len(a) + 1) :
        /\ \A j \in 1..(i - 1) : j <= Len(b) /\ a[j] = b[j]
        /\ \/ i = Len(a) + 1 /\ i <= Len(b)
           \/ i <= Len(a) /\ i <= Len(b) /\ Ord(a[i]) < Ord(b[i])

StrGreater(a, b) == StrLess(b, a)

\* ------------------------------------------------------------------ datetime
\* a naive datetime.datetime: the second and the microsecond field (one digit)
Microseconds == {0, 5}

Datetimes == [sec : 0..MaxTime, usec : Microseconds]

\* datetime.isoformat(): "...SS", and ".ffffff" only when microsecond # 0
isoformat(dt) ==
    <<Digit(dt.sec)>> \o (IF dt.usec = 0 THEN <<>> ELSE <<".", Digit(dt.usec)>>)

\* the instant a datetime denotes, in tenths of a second
DatetimeInstant(dt) == dt.sec * 10 + dt.usec

\* datetime.fromisoformat(s).replace(tzinfo=None): the instant of a timestamp
\* string, in tenths of a second; a trailing "Z" is accepted and dropped
fromisoformat(s) ==
    DigitValue(s[1]) * 10
        + (IF Len(s) >= 3 /\ s[2] = "." THEN DigitValue(s[3]) ELSE 0)

\* ---------------------------------------------------------------- the server
\* the two timestamp formats of a server: "...SS" and "...SSZ" (GitHub's)
Suffixes == {<<>>, <<"Z">>}

\* a raw record: its number (its identity) and its updated_at string
RawRecord(n, t, sfx) == [number |-> n, updated_at |-> <<Digit(t)>> \o sfx]

Servers ==
    UNION { { [i \in 1..n |-> RawRecord(i, f[i], sfx)] : f \in [1..n -> 0..MaxTime] } :
            <<n, sfx>> \in (0..MaxRecs) \X Suffixes }

Min(a, b) == IF a <= b THEN a ELSE b

\* the records the server holds for ?page=p&per_page=pp
ServerPage(all, p, pp) == SubSeq(all, (p - 1) * pp + 1, Min(p * pp, Len(all)))

\* PullRequest.updated
updated(pr) == pr.updated_at

\* --------------------------------------------------------------- date filter
\* GitHub.__date_filter.filter_func
filter_func(pr, oldest, latest) ==
    IF oldest = NoDate /\ latest = NoDate THEN TRUE
    ELSE IF oldest # NoDate /\ StrLess(updated(pr), isoformat(oldest)) THEN FALSE
    ELSE IF latest # NoDate /\ StrGreater(updated(pr), isoformat(latest)) THEN FALSE
    ELSE TRUE

\* a filter that hands the surviving records back last one first
date_filter_reversed(prs, oldest, latest) ==
    LET keep(pr) == filter_func(pr, oldest, latest)
        kept     == SelectSeq(prs, keep)
    IN  [i \in 1..Len(kept) |-> kept[Len(kept) + 1 - i]]

\* GitHub.__date_filter: list(filter(filter_func, pull_requests))
date_filter(prs, oldest, latest) ==
    LET keep(pr) == filter_func(pr, oldest, latest)
    IN  SelectSeq(prs, keep)

\* a stop test that takes every full page for the last one
StopTest_full_page_ends(partial, pp, oldest) ==
    \/ Len(partial) <= pp
    \/ /\ oldest # NoDate
       /\ StrLess(updated(partial[Len(partial)]), isoformat(oldest))

\* the loop's stop test, on the unfiltered page
StopTest(partial, pp, oldest) ==
    \/ Len(partial) < pp
    \/ /\ oldest # NoDate
       /\ StrLess(updated(partial[Len(partial)]), isoformat(oldest))

\* a stop test that reads the last record before it looks at the count
last_record_read_first(partial, pp, oldest) ==
    oldest # NoDate /\ Len(partial) = 0

\* the loop's stop test: does partial_pull_reqs[-1] raise IndexError? The
\* right operand of `or` is evaluated only when count < per_page is false
last_record_index_error(partial, pp, oldest) ==
    ~(Len(partial) < pp) /\ oldest # NoDate /\ Len(partial) = 0

\* ------------------------------------------------------------ HTTP responses
\* str.lower() on the words of a message
LowerWord(w) ==
    CASE w = "API"   -> "api"
      [] w = "Not"   -> "not"
      [] w = "Found" -> "found"
      [] w = "You"   -> "you"
      [] OTHER       -> w

lower(msg) == [i \in 1..Len(msg) |-> LowerWord(msg[i])]

\* str.startswith
startswith(s, prefix) ==
    /\ Len(prefix) <= Len(s)
    /\ \A i \in 1..Len(prefix) : s[i] = prefix[i]

RateLimitMessage == <<"API", "rate", "limit", "exceeded">>

OtherMessages ==
    { <<"Not", "Found">>,
      <<"You", "have", "exceeded", "a", "secondary", "rate", "limit">> }

\* response bodies: empty, text that is not JSON, a JSON array, a JSON object
\* with or without a "message" field
\* (message: Absent, or Some(the value of the "message" field))
EmptyBody     == [kind |-> "empty",  message |-> Absent, items |-> <<>>]
TextBody      == [kind |-> "text",   message |-> Absent, items |-> <<>>]
ArrayBody(xs) == [kind |-> "array",  message |-> Absent, items |-> xs]
ObjectBody(m) == [kind |-> "object", message |-> m,      items |-> <<>>]

ErrorBodies ==
    {EmptyBody, TextBody, ArrayBody(<<>>), ObjectBody(Absent)}
        \cup {ObjectBody(Some(m)) : m \in OtherMessages}

\* the headers rate_limit_sleep reads
NoHeaders == [RetryAfter |-> Absent, XRateLimitReset |-> Absent]

Epochs == 0..MaxEpoch

RateLimitHeaders ==
    [RetryAfter : {Absent, Some(2)}, XRateLimitReset : {Absent} \cup {Some(e) : e \in Epochs}]

Response(s, b, h) == [status |-> s, body |-> b, headers |-> h]

\* the page the server answers a request for page p with
PageResponse(all, p, pp) == Response(200, ArrayBody(ServerPage(all, p, pp)), NoHeaders)

RateLimitResponses ==
    {Response(s, ObjectBody(Some(RateLimitMessage)), h) :
        <<s, h>> \in {403, 429} \X RateLimitHeaders}

ErrorResponses ==
    {Response(s, b, NoHeaders) : <<s, b>> \in {403, 429, 404} \X ErrorBodies}
        \cup {Response(404, ObjectBody(Some(RateLimitMessage)), NoHeaders)}

\* the basic faults: a rate limit with Retry-After, a JSON error, an error page
BasicFaults ==
    { Response(403, ObjectBody(Some(RateLimitMessage)), [RetryAfter |-> Some(2), XRateLimitReset |-> Absent]),
      Response(404, ObjectBody(Some(<<"Not", "Found">>)), NoHeaders),
      Response(404, TextBody, NoHeaders) }

AllFaults == RateLimitResponses \cup ErrorResponses

\* bool(response.text)
text(r) == r.body.kind # "empty"

\* response.json(): the decoded body, or the exception it raises
json(r) ==
    [exc   |-> IF r.body.kind \in {"empty", "text"} THEN "JSONDecodeError" ELSE None,
     value |-> r.body]

\* ------------------------------------------------------------ rate_limit guard
\* rate_limit_sleep: the duration it passes to time.sleep
rate_limit_sleep_time(headers, now) ==
    LET sleep_time == IF headers.RetryAfter # Absent THEN headers.RetryAfter[1] ELSE 60
    IN  IF headers.XRateLimitReset # Absent
        THEN headers.XRateLimitReset[1] - now
        ELSE sleep_time

\* rate_limit.wrapper, one iteration after func() returned r: what it does next
\*   "retry"  : a rate-limit response; sleep, then call func() again
\*   "return" : break and return r
\*   else     : the exception the iteration raises
wrapper_step(r) ==
    IF r.status \in {403, 429} /\ text(r)
    THEN IF json(r).exc # None THEN json(r).exc
         ELSE IF json(r).value.kind # "object" THEN "AttributeError"
         ELSE LET m   == json(r).value.message
                  msg == IF m = Absent THEN <<>> ELSE m[1]
              IN  IF startswith(lower(msg), <<"api", "rate", "limit">>)
                  THEN "retry"
                  ELSE "return"
    ELSE "return"

\* Api.success(response, status_code, output): "True", "False", or the exception
success(r, status_code, output) ==
    IF "status" \notin DOMAIN r THEN "False"
    ELSE IF r.status # status_code
         THEN IF text(r) /\ output /\ json(r).exc # None
              THEN json(r).exc
              ELSE "False"
         ELSE "True"

\* ------------------------------------------------------------------- state
VARIABLES
    server,       \* the records the remote repository holds, in the order it serves them
    api,          \* the Api object: NoApi before construction, else its private fields
    pc,           \* "new" (no Api object), "idle", or the position inside get_pull_requests:
                  \*   "send"  in rate_limit.wrapper, about to call func() (api.py:25)
                  \*   "sleep" in rate_limit_sleep, blocked in time.sleep (api.py:58)
                  \*   "page"  api.get returned into self.__response (github.py:128)
    op,           \* the current or last operation and its arguments
    error,        \* the exception the last operation raised, or None
    raised_in,    \* the function whose code raised it, or None
    result,       \* Absent, or Some(the list get_pull_requests returned)
    oldest_date,  \* arguments of the current or last get_pull_requests call
    latest_date,
    per_page,
    page,         \* params['page']
    pull_reqs,    \* the accumulated list
    response,     \* wrapper's response; at "page" it is self.__response
    requested,    \* the pages the call has asked api.get for, in order
    calls,        \* Transport invocations made by the current api.get call
    limited,      \* rate-limit responses the current api.get call received
    sleeps,       \* time.sleep calls the current api.get call completed
    sleep_time,   \* Absent, or Some(the duration passed to time.sleep)
    time_read,    \* Absent, or Some(the int(time.time()) rate_limit_sleep read)
    last_request, \* the last request Transport sent, or NoRequest
    pull_requests, \* the list of PullRequest objects build_report is given
    report        \* NoReport, or the sections build_report built and the
                  \* datetime.now() PullRequest.age read

vars == <<server, api, pc, op, error, raised_in, result, oldest_date, latest_date,
          per_page, page, pull_reqs, response, requested, calls, limited, sleeps,
          sleep_time, time_read, last_request, pull_requests, report>>

\* what build_report reads and writes
report_vars == <<pull_requests, report>>

NoReport == [none |-> TRUE]

NoRequest == [none |-> TRUE]

Tokens == {None, "", "t0ken"}

UserAgents == {None, "weekly-report"}

Verbs == {"put", "post", "delete", "head", "patch", "options"}

\* the locals of an operation that is not a get_pull_requests call
NoLocals ==
    /\ oldest_date' = NoDate
    /\ latest_date' = NoDate
    /\ per_page' = 0
    /\ page' = 0
    /\ pull_reqs' = <<>>
    /\ response' = NoResponse
    /\ requested' = <<>>
    /\ limited' = 0
    /\ sleeps' = 0
    /\ sleep_time' = Absent
    /\ time_read' = Absent
    /\ result' = Absent

InitOn(S) ==
    /\ server \in S
    /\ api = NoApi
    /\ pc = "new"
    /\ op = <<>>
    /\ error = None
    /\ raised_in = None
    /\ result = Absent
    /\ oldest_date = NoDate
    /\ latest_date = NoDate
    /\ per_page = 0
    /\ page = 0
    /\ pull_reqs = <<>>
    /\ response = NoResponse
    /\ requested = <<>>
    /\ calls = 0
    /\ limited = 0
    /\ sleeps = 0
    /\ sleep_time = Absent
    /\ time_read = Absent
    /\ last_request = NoRequest

\* ----------------------------------------------------------------------- Api
\* Api.__init__, the header set it stores
init_headers(token, user_agent) ==
    [UserAgent     |-> IF user_agent = None THEN "python-requests" ELSE user_agent,
     Accept        |-> "application/vnd.github+json",
     Authorization |-> <<"Bearer:", token>>]

\* a check that forgets the empty token
token_missing_none_only(token) == token = None

\* Api.__init__: does it raise NoApiToken?
token_missing(token) == token = None \/ token = ""

\* Api(token=..., user_agent=...)
Api_init(UAs) ==
    /\ pc = "new"
    /\ \E token \in Tokens, user_agent \in UAs :
        /\ op' = <<"Api", token, user_agent>>
        /\ IF token_missing(token)
           THEN /\ error' = "NoApiToken"
                /\ raised_in' = "Api.__init__"
                /\ api' = NoApi
                /\ pc' = "new"
           ELSE /\ error' = None
                /\ raised_in' = None
                /\ api' = [api_token |-> token, headers |-> init_headers(token, user_agent)]
                /\ pc' = "idle"
    /\ NoLocals
    /\ calls' = 0
    /\ last_request' = NoRequest
    /\ UNCHANGED server
    /\ UNCHANGED report_vars

\* Api.put / post / delete / head / patch / options: the exception it raises
verb_raises(v) == "NotImplemented"

\* a head() that sends the request
verb_sends_head(v) == v = "head"

\* Api.put / post / delete / head / patch / options: does it send a request?
verb_sends(v) == FALSE

\* the version argument of a call: None, or an API version
Versions == {None, "2022-11-28"}

\* dict.update({'X-GitHub-Api-Version': version}) when version is not None
update_version(headers, version) ==
    IF version = None
    THEN headers
    ELSE ("XGitHubApiVersion" :> version) @@ headers

\* a __send that updates self.__headers itself: what the object stores is
\* the header set that was sent
stored_headers_aliased(stored, sent) == sent

\* Api.__send: self.__headers after the call. headers is a deepcopy, so the
\* update does not reach the stored set
stored_headers(stored, sent) == stored

\* Api.__send: the request Transport sends
send_request(verb, a, version, params) ==
    [verb |-> verb, params |-> params, headers |-> update_version(a.headers, version)]

\* Api.__send: the Api object after the call
send_api(a, version) ==
    [a EXCEPT !.headers = stored_headers(a.headers, update_version(a.headers, version))]

\* the params argument of get_pull_requests: None (Absent), or a dict
CallerParams ==
    {Absent, Some([state |-> "open", page |-> 7, per_page |-> 9, head |-> "dev"])}

\* the fixed entries a caller's entries are replaced by
query_params_caller_wins(params, p, pp) ==
    (IF params = Absent THEN <<>> ELSE params[1])
        @@ [page |-> p, per_page |-> pp, state |-> "all", sort |-> "updated",
            direction |-> "desc"]

\* GitHub.get_pull_requests: the query parameters of one request: the
\* caller's dict with page, per_page, state, sort and direction set
query_params(params, p, pp) ==
    [page |-> p, per_page |-> pp, state |-> "all", sort |-> "updated",
     direction |-> "desc"]
        @@ (IF params = Absent THEN <<>> ELSE params[1])

unimplemented_verb ==
    /\ pc = "idle"
    /\ \E v \in Verbs :
        /\ op' = <<v>>
        /\ error' = verb_raises(v)
        /\ raised_in' = v
        /\ calls' = IF verb_sends(v) THEN 1 ELSE 0
        /\ last_request' = IF verb_sends(v)
                           THEN send_request(v, api, None, <<>>)
                           ELSE NoRequest
    /\ NoLocals
    /\ UNCHANGED <<server, api, pc>>
    /\ UNCHANGED report_vars

\* an object that is no response: it has no status_code
MalformedResponse == [malformed |-> TRUE]

\* the responses Api.success is given
SuccessResponses ==
    AllFaults \cup {PageResponse(<<>>, 1, 1), NoResponse, MalformedResponse}

\* the status_code argument of Api.success
StatusCodes == {200, 404}

\* Api.success(response, status_code, output), called on its own
success_call ==
    /\ \E r \in SuccessResponses, status_code \in StatusCodes, output \in BOOLEAN :
        /\ op' = <<"success", status_code, output>>
        /\ response' = r
        /\ LET ok == success(r, status_code, output)
           IN  IF ok \in {"True", "False"}
               THEN /\ error' = None
                    /\ raised_in' = None
                    /\ result' = Some(ok = "True")
               ELSE /\ error' = ok
                    /\ raised_in' = "success"
                    /\ result' = Absent
    /\ UNCHANGED <<server, api, pc, oldest_date, latest_date, per_page, page,
                   pull_reqs, requested, calls, limited, sleeps, sleep_time,
                   time_read, last_request>>
    /\ UNCHANGED report_vars

\* ------------------------------------------------------------------- GitHub
PageInputs ==
    (Datetimes \cup {NoDate}) \X (Datetimes \cup {NoDate}) \X (1..MaxPerPage)
        \X {None} \X {Absent}

\* GitHub.get_pull_requests, up to its first api.get call. Every call starts
\* from the same locals, so a call right after a call reaches nothing that the
\* first call, or a call after another operation, does not reach
get_pull_requests(Inputs) ==
    /\ pc = "idle"
    /\ op[1] # "get_pull_requests"
    /\ \E in \in Inputs :
        /\ oldest_date' = in[1]
        /\ latest_date' = in[2]
        /\ per_page' = in[3]
        /\ op' = <<"get_pull_requests", in[4], in[5]>>
    /\ error' = None
    /\ raised_in' = None
    /\ result' = Absent
    /\ page' = 1
    /\ pull_reqs' = <<>>
    /\ requested' = <<1>>
    /\ response' = NoResponse
    /\ calls' = 0
    /\ limited' = 0
    /\ sleeps' = 0
    /\ sleep_time' = Absent
    /\ time_read' = Absent
    /\ last_request' = NoRequest
    /\ pc' = "send"
    /\ UNCHANGED <<server, api>>
    /\ UNCHANGED report_vars

\* an exception leaves get_pull_requests: nothing is returned
Raise(exc, where) ==
    /\ error' = exc
    /\ raised_in' = where
    /\ result' = Absent
    /\ pc' = "idle"

\* rate_limit.wrapper: one iteration. Transport sends the request, the server
\* answers with the page asked for or with one of Faults (with a rate-limit
\* response at most Limit times per api.get call), and the wrapper returns the
\* response, starts to sleep, or raises
wrapper(Faults, Limit) ==
    /\ pc = "send"
    /\ calls' = calls + 1
    /\ last_request' = send_request("GET", api, op[2], query_params(op[3], page, per_page))
    /\ api' = send_api(api, op[2])
    /\ \E r \in {PageResponse(server, page, per_page)} \cup Faults, now \in Epochs :
        /\ wrapper_step(r) = "retry" => limited < Limit
        /\ response' = r
        /\ LET step == wrapper_step(r)
               time == rate_limit_sleep_time(r.headers, now)
           IN  CASE step = "retry" ->
                        /\ limited' = limited + 1
                        /\ sleep_time' = Some(time)
                        /\ time_read' = IF r.headers.XRateLimitReset # Absent
                                        THEN Some(now)
                                        ELSE Absent
                        /\ IF time < 0
                           THEN Raise("ValueError", "rate_limit_sleep")
                           ELSE pc' = "sleep" /\ UNCHANGED <<error, raised_in, result>>
                 [] step = "return" ->
                        /\ pc' = "page"
                        /\ UNCHANGED <<limited, sleep_time, time_read, error,
                                       raised_in, result>>
                 [] OTHER ->
                        /\ Raise(step, "wrapper")
                        /\ UNCHANGED <<limited, sleep_time, time_read>>
    /\ UNCHANGED <<server, op, oldest_date, latest_date, per_page, page,
                   pull_reqs, requested, sleeps>>
    /\ UNCHANGED report_vars

\* requests raises (a connection failure): nothing catches it
transport_failure ==
    /\ pc = "send"
    /\ calls' = calls + 1
    /\ last_request' = send_request("GET", api, op[2], query_params(op[3], page, per_page))
    /\ api' = send_api(api, op[2])
    /\ Raise("ConnectionError", "requests")
    /\ UNCHANGED <<server, op, oldest_date, latest_date, per_page, page,
                   pull_reqs, response, requested, limited, sleeps, sleep_time,
                   time_read>>
    /\ UNCHANGED report_vars

\* time.sleep returns and the wrapper's loop continues with the same request
rate_limit_sleep ==
    /\ pc = "sleep"
    /\ sleeps' = sleeps + 1
    /\ sleep_time' = Absent
    /\ time_read' = Absent
    /\ response' = NoResponse
    /\ pc' = "send"
    /\ UNCHANGED <<server, api, op, error, raised_in, result, oldest_date, latest_date,
                   per_page, page, pull_reqs, requested, calls, limited,
                   last_request>>
    /\ UNCHANGED report_vars

\* GitHub.get_pull_requests, from the success check of a response to the
\* next api.get call, the return or the raise
get_pull_requests_page ==
    /\ pc = "page"
    /\ LET ok      == success(response, 200, TRUE)
           partial == json(response).value.items
           count   == Len(partial)
           kept    == IF count > 0
                      THEN pull_reqs \o date_filter(partial, oldest_date, latest_date)
                      ELSE pull_reqs
           raises  == last_record_index_error(partial, per_page, oldest_date)
       IN  CASE ok = "True" /\ raises ->
                    /\ pull_reqs' = kept
                    /\ Raise("IndexError", "get_pull_requests")
                    /\ UNCHANGED <<page, requested, response, calls, limited,
                                   sleeps>>
             [] ok = "True" /\ ~raises /\ StopTest(partial, per_page, oldest_date) ->
                    /\ pull_reqs' = kept
                    /\ result' = Some(kept)
                    /\ pc' = "idle"
                    /\ UNCHANGED <<error, raised_in, page, requested, response,
                                   calls, limited, sleeps>>
             [] ok = "True" /\ ~raises /\ ~StopTest(partial, per_page, oldest_date) ->
                    /\ pull_reqs' = kept
                    /\ page' = page + 1
                    /\ requested' = Append(requested, page + 1)
                    /\ response' = NoResponse
                    /\ calls' = 0
                    /\ limited' = 0
                    /\ sleeps' = 0
                    /\ pc' = "send"
                    /\ UNCHANGED <<error, raised_in, result>>
             [] ok = "False" ->
                    /\ Raise("GetPullRequestsError", "get_pull_requests")
                    /\ UNCHANGED <<pull_reqs, page, requested, response, calls,
                                   limited, sleeps>>
             [] OTHER ->
                    /\ Raise(ok, "success")
                    /\ UNCHANGED <<pull_reqs, page, requested, response, calls,
                                   limited, sleeps>>
    /\ UNCHANGED <<server, api, op, oldest_date, latest_date, per_page,
                   sleep_time, time_read, last_request>>
    /\ UNCHANGED report_vars

\* ------------------------------------------------------------- PullRequest
\* The timestamps of a report's records keep the day, the hour and the
\* minute: "YYYY-MM-DDTHH:MM:SS" is abstracted to "DTHH:MM" (one digit for
\* the day), followed by nothing or by "Z"
Hours == {0, 1, 23}

Minutes == {0, 30}

\* a naive datetime.datetime, to the minute
CalendarTimes == [day : 0..MaxDay, hour : Hours, minute : Minutes]

TwoDigits(n) == <<Digit(n \div 10), Digit(n % 10)>>

\* the timestamp string the server sends for an instant
timestamp(t, sfx) ==
    <<Digit(t.day), "T">> \o TwoDigits(t.hour) \o <<":">> \o TwoDigits(t.minute) \o sfx

\* datetime.datetime.fromisoformat(s).replace(tzinfo=None): the fields are
\* parsed from their digits, a trailing "Z" is accepted and dropped
datetime_fromisoformat(s) ==
    [day    |-> DigitValue(s[1]),
     hour   |-> DigitValue(s[3]) * 10 + DigitValue(s[4]),
     minute |-> DigitValue(s[6]) * 10 + DigitValue(s[7])]

\* a - b of two datetimes: a datetime.timedelta, normalised by Python to
\* days (any sign) and 0 <= seconds < 86400
timedelta(a, b) ==
    LET total == ((a.day - b.day) * 24 + (a.hour - b.hour)) * 3600
                    + (a.minute - b.minute) * 60
    IN  [days |-> total \div 86400, seconds |-> total % 86400]

\* the raw payload of a pull request (merged_at, closed_at: Absent for null)
RawPullRequest(n, created_at, merged_at, closed_at, ttl) ==
    [number     |-> n,
     created_at |-> created_at,
     updated_at |-> created_at,
     merged_at  |-> merged_at,
     closed_at  |-> closed_at,
     title      |-> ttl]

\* PullRequest.created
created(pr) == pr.created_at

\* PullRequest.merged
merged(pr) == pr.merged_at

\* PullRequest.closed
closed(pr) == pr.merged_at

\* PullRequest.isClosed
isClosed(pr) == closed(pr) # Absent

\* PullRequest.isMerged
isMerged(pr) == merged(pr) # Absent

\* PullRequest.number: str(...) of a one-digit number
number(pr) == <<Digit(pr.number)>>

\* PullRequest.title
title(pr) == pr.title

\* short_title's max_len
max_len == 40

\* a short_title that also cuts a title of exactly max_len characters
short_title_cuts_at_max_len(pr) ==
    IF Len(title(pr)) >= max_len
    THEN SubSeq(title(pr), 1, max_len) \o <<">">>
    ELSE title(pr)

\* PullRequest.short_title
short_title(pr) ==
    IF Len(title(pr)) > max_len
    THEN SubSeq(title(pr), 1, max_len) \o <<">">>
    ELSE title(pr)

\* PullRequest.age: the instant the age is measured up to
age_end(pr, now) ==
    IF isMerged(pr) THEN datetime_fromisoformat(merged(pr)[1])
    ELSE IF isClosed(pr) THEN datetime_fromisoformat(closed(pr)[1])
    ELSE now

Abs(n) == IF n < 0 THEN -n ELSE n

\* an age whose hours are all the hours elapsed, the whole days included
age_between_total_hours(start, end) ==
    LET diff == timedelta(end, start)
    IN  [days |-> Abs(diff.days), hours10 |-> ((diff.days * 86400 + diff.seconds) * 10) \div 3600]

\* PullRequest.age, from the two datetimes on: f'{abs(days):4d}d {hours:4.1f}h'
\* as the day count and the hours in tenths (seconds here are multiples of
\* 1800, so the tenths are exact)
age_between(start, end) ==
    LET diff == timedelta(end, start)
    IN  [days |-> Abs(diff.days), hours10 |-> (diff.seconds * 10) \div 3600]

\* PullRequest.age
age(pr, now) == age_between(datetime_fromisoformat(created(pr)), age_end(pr, now))

\* ------------------------------------------------------------------ report
\* build_report.format: one row of a section's table; attrs differ between
\* the sections in the third date only
format_row(pr, date, now) ==
    [number      |-> number(pr),
     short_title |-> short_title(pr),
     created     |-> created(pr),
     date        |-> date,
     age         |-> age(pr, now)]

open_prs(prs) == LET open(pr) == ~isClosed(pr) IN SelectSeq(prs, open)

merged_prs(prs) == SelectSeq(prs, isMerged)

closed_prs(prs) == SelectSeq(prs, isClosed)

\* the three sections of build_report
sections(prs, now) ==
    [now    |-> now,
     open   |-> [i \in 1..Len(open_prs(prs)) |->
                    format_row(open_prs(prs)[i], updated(open_prs(prs)[i]), now)],
     merged |-> [i \in 1..Len(merged_prs(prs)) |->
                    format_row(merged_prs(prs)[i], merged(merged_prs(prs)[i]), now)],
     closed |-> [i \in 1..Len(closed_prs(prs)) |->
                    format_row(closed_prs(prs)[i], closed(closed_prs(prs)[i]), now)]]

\* build_report(pull_requests), at the local time now; main builds one report
build_report ==
    /\ report = NoReport
    /\ \E now \in CalendarTimes : report' = sections(pull_requests, now)
    /\ UNCHANGED <<server, api, pc, op, error, raised_in, result, oldest_date,
                   latest_date, per_page, page, pull_reqs, response, requested,
                   calls, limited, sleeps, sleep_time, time_read, last_request,
                   pull_requests>>

\* the lists build_report is given. Timestamps: Absent, or Some(a timestamp)
Midnight == [day |-> 0, hour |-> 0, minute |-> 0]

OptionalTimestamps(T, sfx) == {Absent} \cup {Some(timestamp(t, sfx)) : t \in T}

\* a title of n characters
TitleOf(n) == [i \in 1..n |-> Digit(i % 10)]

\* records in every lifecycle state, up to MaxRecs of them
LifecycleLists ==
    LET States == OptionalTimestamps({[Midnight EXCEPT !.hour = 1]}, <<"Z">>)
                    \X OptionalTimestamps({[Midnight EXCEPT !.hour = 23]}, <<"Z">>)
    IN  UNION { { [i \in 1..n |-> RawPullRequest(i, timestamp(Midnight, <<"Z">>),
                                                 f[i][1], f[i][2], TitleOf(i))] :
                  f \in [1..n -> States] } : n \in 0..MaxRecs }

\* one record with any creation, merge and close time
AgeLists ==
    { <<RawPullRequest(1, timestamp(c, sfx), m, cl, TitleOf(1))>> :
        <<c, sfx, m, cl>> \in
            CalendarTimes \X Suffixes
                \X OptionalTimestamps(CalendarTimes, <<"Z">>)
                \X OptionalTimestamps(CalendarTimes, <<"Z">>) }

\* two open records with titles of any two lengths
TitleLists ==
    { [i \in 1..2 |-> RawPullRequest(i, timestamp(Midnight, <<"Z">>), Absent, Absent,
                                     TitleOf(n[i]))] :
        n \in (0..MaxTitle) \X (0..MaxTitle) }

\* ---------------------------------------------------------- specifications
\* Spec: a server that may answer with any fault; each repository holds at
\* most one record and calls carry no date bound
GuardServers == {s \in Servers : Len(s) <= 1}

GuardInputs == {NoDate} \X {NoDate} \X (1..MaxPerPage) \X Versions \X CallerParams

\* no report is being built
NoReportInput == pull_requests = <<>> /\ report = NoReport

Init == InitOn(GuardServers) /\ NoReportInput

Next ==
    \/ Api_init(UserAgents)
    \/ unimplemented_verb
    \/ get_pull_requests(GuardInputs)
    \/ wrapper(AllFaults, MaxRetries)
    \/ transport_failure
    \/ rate_limit_sleep
    \/ get_pull_requests_page

Spec == Init /\ [][Next]_vars

\* SpecFair: Spec, with the progress the single synchronous thread makes: a
\* request sent is answered or fails, time.sleep returns, a page received
\* is processed. Nothing makes the caller start another operation
Fairness ==
    /\ WF_vars(wrapper(AllFaults, MaxRetries) \/ transport_failure)
    /\ WF_vars(rate_limit_sleep)
    /\ WF_vars(get_pull_requests_page)

SpecFair == Init /\ [][Next]_vars /\ Fairness

\* SpecPages: every repository and every date range within the bounds; the
\* server answers with the page or with one of the basic faults, and
\* rate-limits a request at most once
InitPages == InitOn(Servers) /\ NoReportInput

NextPages ==
    \/ Api_init({None})
    \/ unimplemented_verb
    \/ get_pull_requests(PageInputs)
    \/ wrapper(BasicFaults, 1)
    \/ transport_failure
    \/ rate_limit_sleep
    \/ get_pull_requests_page

SpecPages == InitPages /\ [][NextPages]_vars

\* SpecSuccess: Api.success on any response, expected status and output flag
InitSuccess == InitOn({<<>>}) /\ NoReportInput

NextSuccess == success_call

SpecSuccess == InitSuccess /\ [][NextSuccess]_vars

\* SpecReport: build_report on a list of pull requests
InitReport ==
    /\ InitOn({<<>>})
    /\ pull_requests \in LifecycleLists \cup AgeLists \cup TitleLists
    /\ report = NoReport

NextReport == build_report

SpecReport == InitReport /\ [][NextReport]_vars

\* ------------------------------------------------------------------ claims
InCall == Len(op) > 0 /\ op[1] = "get_pull_requests"

\* get_pull_requests has returned its list
Returned == InCall /\ pc = "idle" /\ error = None

\* the record's updated_at is an instant strictly earlier than the datetime
EarlierThan(pr, dt) == fromisoformat(updated(pr)) < DatetimeInstant(dt)

LaterThan(pr, dt) == fromisoformat(updated(pr)) > DatetimeInstant(dt)

\* page p of the current call is short, or its last record is strictly
\* earlier than oldest_date
BoundaryPage(p) ==
    LET recs == ServerPage(server, p, per_page)
    IN  \/ Len(recs) < per_page
        \/ /\ oldest_date # NoDate
           /\ Len(recs) > 0
           /\ EarlierThan(recs[Len(recs)], oldest_date)

\* the first such page (page MaxRecs + 1 is empty, so one exists)
FirstBoundaryPage ==
    CHOOSE p \in 1..(MaxRecs + 1) :
        BoundaryPage(p) /\ \A q \in 1..(p - 1) : ~BoundaryPage(q)

\* C1: get_pull_requests requests pages 1, 2, ... up to and including the
\* first page that is short or whose last record's updated_at is strictly
\* earlier than oldest_date: no page after that one, and it does not return
\* before that one.
C1_PagesUpToFirstBoundary ==
    InCall =>
        /\ requested = [i \in 1..Len(requested) |-> i]
        /\ \A i \in 1..Len(requested) : requested[i] <= FirstBoundaryPage
        /\ Returned => requested[Len(requested)] = FirstBoundaryPage

\* the server's records are non-increasing in updated_at
Monotone(recs) ==
    \A i, j \in 1..Len(recs) :
        i < j => ~StrLess(updated(recs[i]), updated(recs[j]))

\* C2: on a server whose records are non-increasing in updated_at, the list
\* get_pull_requests returns is the date filter applied to the full,
\* unpaginated record list: stopping early loses no record the filter keeps
\* and returns none it drops.
C2_SameAsFilteringAll ==
    (Returned /\ Monotone(server)) =>
        result = Some(date_filter(server, oldest_date, latest_date))

\* C2's case: the call returned some records and stopped before the last page
C2_Witness ==
    /\ Returned
    /\ Monotone(server)
    /\ page * per_page < Len(server)
    /\ result # Some(<<>>)
    /\ Len(result[1]) < Len(server)

\* C3: a page response that the guard returned with a status other than 200
\* makes the call fail with GetPullRequestsError, and nothing is returned.
C3_FailedPageIsFetchError ==
    ( /\ InCall
      /\ pc = "idle"
      /\ response # NoResponse
      /\ wrapper_step(response) = "return"
      /\ response.status # 200 )
        => error = "GetPullRequestsError" /\ result = Absent

\* C4: within one guarded get, every rate-limit response is followed by
\* exactly one sleep and one more Transport invocation, the sleep lasts at
\* least Retry-After when that is the header the response carries, the
\* response returned is not a rate-limit response, and a rate-limit response
\* never ends the call.
C4_RateLimitInvisible ==
    InCall =>
        /\ pc = "send" => calls = limited /\ sleeps = limited
        /\ pc = "sleep" =>
            /\ calls = limited /\ sleeps = limited - 1
            /\ ( /\ response.headers.RetryAfter # Absent
                 /\ response.headers.XRateLimitReset = Absent )
                   => sleep_time[1] >= response.headers.RetryAfter[1]
        /\ pc = "page" =>
            /\ calls = limited + 1 /\ sleeps = limited
            /\ wrapper_step(response) # "retry"
        /\ (response # NoResponse /\ wrapper_step(response) = "retry") => pc = "sleep"

\* C5: the duration passed to time.sleep is Retry-After when the response
\* carries it, else X-RateLimit-Reset minus the current epoch when it carries
\* that, else 60.
C5_SleepPrecedence ==
    sleep_time # Absent =>
        sleep_time[1] =
            IF response.headers.RetryAfter # Absent
            THEN response.headers.RetryAfter[1]
            ELSE IF response.headers.XRateLimitReset # Absent
                 THEN response.headers.XRateLimitReset[1] - time_read[1]
                 ELSE 60

\* a rate-limit response as the claim defines it
IsRateLimit(r) ==
    /\ r.status \in {403, 429}
    /\ r.body.kind # "empty"
    /\ r.body.message # Absent
    /\ startswith(lower(r.body.message[1]), <<"api", "rate", "limit">>)

\* C6: the guard sleeps and retries exactly on a 403/429 response whose
\* non-empty body has a message starting with "api rate limit"; every other
\* response is returned after that one invocation, with no sleep and no
\* exception raised by the guard.
C6_OnlyRateLimitIsAbsorbed ==
    (InCall /\ response # NoResponse) =>
        IF IsRateLimit(response)
        THEN pc = "sleep" \/ raised_in = "rate_limit_sleep"
        ELSE /\ raised_in \notin {"wrapper", "rate_limit_sleep"}
             /\ pc # "sleep"
             /\ sleep_time = Absent
             /\ pc = "page" => calls = limited + 1 /\ sleeps = limited

\* C7: while every answer to a request has been a rate-limit response, the
\* guarded get neither returns nor raises: it is about to send or asleep.
C7_AlwaysLimitedNeverEnds ==
    (InCall /\ calls > 0 /\ limited = calls) => pc \in {"send", "sleep"}

\* the records of the pages the call has fetched
Fetched == SubSeq(server, 1, Min(page * per_page, Len(server)))

\* the record's instant is within [oldest, latest], bounds included
InRange(pr, oldest, latest) ==
    /\ oldest = NoDate \/ ~EarlierThan(pr, oldest)
    /\ latest = NoDate \/ ~LaterThan(pr, latest)

\* C8: the date filter keeps exactly the records with
\* oldest_date <= updated_at <= latest_date (an unset bound does not
\* restrict), in their input order.
C8_FilterKeepsInRange ==
    Returned =>
        LET keep(pr) == InRange(pr, oldest_date, latest_date)
        IN  result = Some(SelectSeq(Fetched, keep))

\* C9: put, post, delete, head, patch and options raise NotImplemented and
\* send nothing, whatever the Api object did before; every request Transport
\* sends is a GET.
C9_OnlyGetIsImplemented ==
    /\ (Len(op) > 0 /\ op[1] \in Verbs) =>
            /\ error = "NotImplemented"
            /\ raised_in = op[1]
            /\ calls = 0
            /\ last_request = NoRequest
    /\ last_request # NoRequest => last_request.verb = "GET"

\* C9's case: a verb other than GET was called on the Api object
C9_Witness == Len(op) > 0 /\ op[1] = "delete" /\ error = "NotImplemented"

\* C10: Api(token) with a None or empty token raises NoApiToken and leaves no
\* Api object and no request behind; an Api object always holds a non-empty
\* token, and so does every request sent.
C10_NoApiWithoutToken ==
    /\ api # NoApi => api.api_token \notin {None, ""}
    /\ (Len(op) > 0 /\ op[1] = "Api" /\ op[2] \in {None, ""}) =>
            /\ error = "NoApiToken"
            /\ api = NoApi
            /\ calls = 0
            /\ last_request = NoRequest
    /\ last_request # NoRequest =>
            last_request.headers.Authorization[2] \notin {None, ""}

\* C10's case: construction with an empty token was attempted
C10_Witness ==
    Len(op) > 0 /\ op[1] = "Api" /\ op[2] = "" /\ error = "NoApiToken" /\ api = NoApi

\* C11: Api.success(response, expected_status) returns true iff the response
\* has the expected status code, false for every other status and for an
\* absent or malformed response, and raises nothing, whatever the body and
\* the output flag.
C11_SuccessNeverThrows ==
    (Len(op) > 0 /\ op[1] = "success") =>
        /\ error = None
        /\ result = Some("status" \in DOMAIN response /\ response.status = op[2])

\* the request carries no X-GitHub-Api-Version header
NoVersionHeader(headers) == "XGitHubApiVersion" \notin DOMAIN headers

\* C12: version overrides do not leak across calls on a shared Api object:
\* whatever calls were made before, with or without a version, the stored
\* header set is the one built at construction, a request of a call without
\* a version carries no version header, and a request of a call with
\* version v carries exactly v.
C12_VersionDoesNotLeak ==
    /\ api # NoApi =>
            api.headers = init_headers(api.api_token, api.headers.UserAgent)
    /\ (InCall /\ last_request # NoRequest) =>
            IF op[2] = None
            THEN NoVersionHeader(last_request.headers)
            ELSE /\ ~NoVersionHeader(last_request.headers)
                 /\ last_request.headers.XGitHubApiVersion = op[2]

\* C12's case: a call with a version override has sent its second request
\* (a retry) on the shared Api object
C12_Witness ==
    /\ InCall
    /\ op[2] # None
    /\ calls = 2
    /\ last_request # NoRequest
    /\ last_request.headers.XGitHubApiVersion = op[2]
    /\ NoVersionHeader(api.headers)

\* C13: every request sent carries Accept: application/vnd.github+json, the
\* user agent (the one given at construction, else the default one) and
\* Authorization: the word Bearer, one space, the token given at construction.
C13_RequestHeaders ==
    /\ (Len(op) > 0 /\ op[1] = "Api" /\ api # NoApi) =>
            api.headers.UserAgent =
                IF op[3] = None THEN "python-requests" ELSE op[3]
    /\ last_request # NoRequest =>
            /\ last_request.headers.Accept = "application/vnd.github+json"
            /\ last_request.headers.UserAgent = api.headers.UserAgent
            /\ last_request.headers.Authorization = <<"Bearer", api.api_token>>

\* Transport sends a request of the current call in this step
Sent == InCall /\ calls' = calls + 1

\* C19: within one get_pull_requests call the first request asks for page 1;
\* a later request asks for the same page as the one before it only as the
\* retry of a rate-limited request, and for the next page only after a page
\* was received and processed; every request carries the call's per_page and
\* state=all, sort=updated, direction=desc, whatever params the caller gave.
C19_PageSequence ==
    [][ Sent =>
            LET q == last_request'.params
            IN  /\ q.per_page = per_page
                /\ q.state = "all"
                /\ q.sort = "updated"
                /\ q.direction = "desc"
                /\ IF last_request = NoRequest
                   THEN q.page = 1
                   ELSE /\ last_request.params.per_page = q.per_page
                        /\ IF calls > 0
                           THEN /\ q.page = last_request.params.page
                                /\ limited = calls
                           ELSE q.page = last_request.params.page + 1
      ]_vars

\* C19's case: the caller gave params of its own, and the request for page 2
\* was rate-limited and sent again
C19_Witness ==
    /\ InCall
    /\ op[3] # Absent
    /\ last_request # NoRequest
    /\ last_request.params.page = 2
    /\ calls = 2
    /\ sleeps = 1

\* C20: the accumulated and the returned records are in received order: each
\* is a record of a fetched page, records of an earlier page come before
\* records of a later page, records of one page keep their order, and none
\* appears twice (the server numbers its records 1, 2, ... in the order it
\* serves them).
C20_ReceivedOrder ==
    InCall =>
        /\ \A i \in 1..Len(pull_reqs) :
                /\ pull_reqs[i].number \in 1..Min(page * per_page, Len(server))
                /\ pull_reqs[i] = server[pull_reqs[i].number]
        /\ \A i, j \in 1..Len(pull_reqs) :
                i < j => pull_reqs[i].number < pull_reqs[j].number
        /\ Returned => result = Some(pull_reqs)

\* C20's case: the call returned records of two pages, two of them from one
\* page, and the filter dropped a record
C20_Witness ==
    /\ Returned
    /\ per_page = 2
    /\ page >= 2
    /\ Len(result[1]) = 2
    /\ result[1][1].number = 2
    /\ result[1][2].number = 3

\* the record a row of the report was made from
RecordOf(row) == pull_requests[DigitValue(row.number[1])]

\* the rows of all three sections
Rows == report.open \o report.merged \o report.closed

\* the record has a row in the section
Listed(section, pr) == \E i \in 1..Len(section) : section[i].number = number(pr)

\* has build_report listed each of the records?
Built == report # NoReport

\* C14: for every record, isMerged() is true iff its merge timestamp is
\* present and isClosed() is true iff its close timestamp is present, each on
\* its own: a record closed without merging is closed and not merged.
C14_FlagsFollowOwnTimestamp ==
    Built =>
        \A i \in 1..Len(pull_requests) :
            LET pr == pull_requests[i]
            IN  /\ isMerged(pr) <=> pr.merged_at # Absent
                /\ isClosed(pr) <=> pr.closed_at # Absent
                /\ Listed(report.merged, pr) <=> pr.merged_at # Absent
                /\ Listed(report.closed, pr) <=> pr.closed_at # Absent

\* the instant the claim measures the age up to
ClaimedEnd(pr, now) ==
    IF pr.merged_at # Absent THEN datetime_fromisoformat(pr.merged_at[1])
    ELSE IF pr.closed_at # Absent THEN datetime_fromisoformat(pr.closed_at[1])
    ELSE now

\* C15: the age of a record is measured from created up to its merge time if
\* it is merged, else its close time if it is closed, else the current time:
\* the age of a record closed without merging does not depend on the current
\* time.
C15_AgeEndInstant ==
    Built =>
        \A i \in 1..Len(Rows) :
            LET pr == RecordOf(Rows[i])
            IN  Rows[i].age =
                    age_between(datetime_fromisoformat(pr.created_at),
                                ClaimedEnd(pr, report.now))

\* an instant in minutes
MinuteOf(t) == (t.day * 24 + t.hour) * 60 + t.minute

\* C16: for an end instant not earlier than created, the age's days are
\* floor(elapsed / one day) and its hours are the remainder below one day
\* only, in [0, 24) (hours are in tenths here).
C16_DaysAndRemainderHours ==
    Built =>
        \A i \in 1..Len(Rows) :
            LET pr      == RecordOf(Rows[i])
                elapsed == MinuteOf(age_end(pr, report.now))
                             - MinuteOf(datetime_fromisoformat(pr.created_at))
            IN  elapsed >= 0 =>
                    /\ Rows[i].age.days = elapsed \div 1440
                    /\ Rows[i].age.hours10 = ((elapsed % 1440) * 10) \div 60
                    /\ Rows[i].age.hours10 \in 0..239

\* C16's case: created at 00:00, evaluated the next day at 01:30: 1 day, 1.5 h
C16_Witness ==
    /\ Built
    /\ Len(report.open) = 1
    /\ RecordOf(report.open[1]).created_at = timestamp(Midnight, <<"Z">>)
    /\ report.now = [day |-> 1, hour |-> 1, minute |-> 30]
    /\ report.open[1].age = [days |-> 1, hours10 |-> 15]

\* C17: short_title is the title when the title has at most 40 characters,
\* and otherwise its first 40 characters and one marker character: never
\* more than 41 characters.
C17_ShortTitle ==
    Built =>
        \A i \in 1..Len(Rows) :
            LET t  == RecordOf(Rows[i]).title
                st == Rows[i].short_title
            IN  /\ Len(st) <= 41
                /\ IF Len(t) <= 40
                   THEN st = t
                   ELSE /\ Len(st) = 41
                        /\ SubSeq(st, 1, 40) = SubSeq(t, 1, 40)
                        /\ st[41] = ">"

\* C17's case: a title of exactly 40 characters and one of 45
C17_Witness ==
    /\ Built
    /\ Len(report.open) = 2
    /\ Len(pull_requests[1].title) = 40
    /\ report.open[1].short_title = pull_requests[1].title
    /\ Len(pull_requests[2].title) = 45
    /\ Len(report.open[2].short_title) = 41

\* C18: build_report lists every record in exactly one of the sections Open,
\* Merged and Closed, and a record closed without merging under Closed and
\* not under Open.
C18_Partition ==
    Built =>
        \A i \in 1..Len(pull_requests) :
            LET pr == pull_requests[i]
                in == [open   |-> Listed(report.open, pr),
                       merged |-> Listed(report.merged, pr),
                       closed |-> Listed(report.closed, pr)]
            IN  /\ Cardinality({k \in DOMAIN in : in[k]}) = 1
                /\ (pr.closed_at # Absent /\ pr.merged_at = Absent) =>
                        in.closed /\ ~in.open

\* the call is running: it has neither returned nor raised
Running == InCall /\ pc # "idle"

\* the call ended the way the claim allows: it returned its list, or raised
\* the fetch error, or a transport failure went through it
EndedAsClaimed ==
    /\ InCall
    /\ pc = "idle"
    /\ \/ error = None /\ result # Absent
       \/ error = "GetPullRequestsError" /\ result = Absent
       \/ error = "ConnectionError" /\ raised_in = "requests" /\ result = Absent

\* C21: every get_pull_requests call with per_page >= 1 on a server with
\* finitely many records ends, and ends in exactly one of: the list returned,
\* the fetch error raised, a transport failure propagated (the server of this
\* model rate-limits a request MaxRetries times at most, never forever).
C21_CallEndsAsClaimed ==
    /\ []((InCall /\ pc = "idle") => EndedAsClaimed)
    /\ (Running ~> EndedAsClaimed)

\* C22: for per_page >= 1, a successful page with no records ends the call
\* normally, with or without oldest_date: the records accumulated so far are
\* returned, the last record of the empty page is not read (no IndexError),
\* and no further request is made.
C22_EmptyPageEndsCall ==
    [][ ( /\ InCall
          /\ pc = "page"
          /\ response.status = 200
          /\ response.body.items = <<>> )
            => /\ pc' = "idle"
               /\ error' = None
               /\ result' = Some(pull_reqs)
               /\ requested' = requested
               /\ calls' = calls
               /\ last_request' = last_request
      ]_vars

\* C22's case: with oldest_date set, the second page came back empty and the
\* call returned the records of the first
C22_Witness ==
    /\ Returned
    /\ oldest_date # NoDate
    /\ page = 2
    /\ response # NoResponse
    /\ response.status = 200
    /\ response.body.items = <<>>
    /\ result # Some(<<>>)

\* C23: the duration rate_limit_sleep passes to time.sleep is never
\* negative, whatever Retry-After and X-RateLimit-Reset the response carries
\* (a reset epoch already in the past included), so the retry step raises
\* nothing.
C23_SleepNeverNegative ==
    /\ sleep_time # Absent => sleep_time[1] >= 0
    /\ raised_in # "rate_limit_sleep"

====
